---- MODULE Spec2Model ----
(***************************************************************************)
(* A model of src/pt.py: the rotary phase cache (Rotary), the construction *)
(* and the forward pass of the U-net shaped GPT (GPT.__init__,             *)
(* GPT.forward, Block.forward, CausalSelfAttention.forward) and the        *)
(* autoregressive sampling loop (GPT.generate).                            *)
(*                                                                         *)
(* Three state machines share the module:                                  *)
(*   Spec             GPT.generate, one call from its arguments to return  *)
(*   FwdSpec          GPT(config) followed by forward passes               *)
(*   RotSpec          a sequence of Rotary.forward calls                   *)
(*                                                                         *)
(* Tensors are abstracted as follows.  A logit is an exact rational        *)
(* <<num, den>> with den > 0, and float("-inf") is <<-1, 0>>.  An          *)
(* activation is not a number but a record of where it was produced, which *)
(* is what the claims about the skip buffer and the value state are about. *)
(***************************************************************************)
EXTENDS Integers, Sequences, FiniteSets, TLC

VARIABLES
    \* ---- GPT.generate: arguments
    weights,          \* trained parameters as seen by generate: the logit table
    prompt,           \* idx as passed in (batch of one)
    max_new_tokens,
    temperature,
    top_k,            \* None or Some(k), k >= 1
    repeat_penalty,
    eos,
    streamer,         \* TRUE iff a streamer object is attached
    \* ---- GPT.generate: locals
    idx,              \* the running sequence
    it,               \* number of completed loop iterations
    pc,               \* "loop", "sample", "exit", "done"
    logits_t,         \* logits[:, -1, :] / temperature            (line 219)
    logits_p,         \* after the repetition penalty              (line 228)
    logits,           \* after the top-k filter                    (line 232)
    trace,            \* observable calls, in program order
    \* ---- GPT(config), GPT.forward
    config,           \* [n_layer, n_head, n_embd]
    fpc,              \* "new", "built", "failed", "enc", "dec", "ret", "raised"
    encoder_layers,
    decoder_layers,
    pass,             \* number of the current forward pass
    li,               \* loop index i of the encoder or decoder loop
    x,                \* the activation: the block that produced it
    v1,               \* the cross-layer value state
    skip_connections, \* the skip buffer
    calls,            \* blocks invoked in this pass, with what each was given
    \* ---- Rotary
    seq_len_cached,
    cos_cached,
    sin_cached,
    rot_ret,          \* what the last Rotary.forward call returned
    rot_arg,          \* the sequence length of the last call
    rot_hist,         \* the lengths queried so far
    rot_computed      \* number of times the tables were computed

genVars == <<weights, prompt, max_new_tokens, temperature, top_k, repeat_penalty,
             eos, streamer, idx, it, pc, logits_t, logits_p, logits, trace>>
fwdVars == <<config, fpc, encoder_layers, decoder_layers, pass, li, x, v1,
             skip_connections, calls>>
rotVars == <<seq_len_cached, cos_cached, sin_cached, rot_ret, rot_arg, rot_hist,
             rot_computed>>
vars == <<genVars, fwdVars, rotVars>>

\* Python's None, and a value that is not None
None == <<>>
Some(v) == <<v>>

(***************************************************************************)
(* Bounds                                                                  *)
(***************************************************************************)
VocabSize == 3        \* config.vocab_size, scaled down
MaxPrompt == 2        \* longest prompt
MaxNew == 2           \* largest max_new_tokens
MaxLayer == 6         \* largest config.n_layer
MaxHead == 2          \* largest config.n_head
MaxEmbd == 3          \* largest config.n_embd
MaxPass == 2          \* forward passes per constructed model
MaxSeqLen == 3        \* longest sequence given to Rotary.forward
MaxCalls == 4         \* Rotary.forward calls per instance
RotDim == 2           \* dim of the Rotary instance (the head dimension)

Vocab == 0 .. VocabSize - 1

Min(a, b) == IF a < b THEN a ELSE b

(***************************************************************************)
(* Rational arithmetic on logits                                           *)
(***************************************************************************)
NegInf == <<-1, 0>>
IsFinite(a) == a[2] # 0
Rat(n) == <<n, 1>>
\* a < b, a = b; also right when one side is NegInf
Lt(a, b) == a[1] * b[2] < b[1] * a[2]
Eq(a, b) == a[1] * b[2] = b[1] * a[2]
\* a / b for a finite a and a positive b
Div(a, b) == <<a[1] * b[2], a[2] * b[1]>>

(***************************************************************************)
(* GPT.generate                                                            *)
(***************************************************************************)
\* self(idx) with no target: the logits of the last position.  The network is
\* a deterministic function of its parameters and of the sequence; here the
\* parameters are a table and the last token rotates it.  The all-zero table
\* is the freshly constructed model, whose lm_head is zero (line 157).
LastLogits(w, s) ==
    [v \in Vocab |-> Rat(w[(v + s[Len(s)]) % VocabSize])]

\* logits[:, -1, :] / temperature
Tempered(l, t) == [v \in Vocab |-> Div(l[v], t)]

\* idx[0].unique()
ContextTokens(s) == {s[i] : i \in 1 .. Len(s)}

\* a penalty that divides every logit, seen or not
PenalizedAll(l, s, rp) ==
    IF Lt(Rat(1), rp) THEN [v \in Vocab |-> Div(l[v], rp)] ELSE l

\* lines 220-228
Penalized(l, s, rp) ==
    IF Lt(Rat(1), rp)
    THEN LET penalty == [v \in Vocab |->
                            IF v \in ContextTokens(s) THEN rp ELSE Rat(1)]
         IN  [v \in Vocab |-> Div(l[v], penalty[v])]
    ELSE l

\* torch.topk(logits, k)[0][:, [-1]]: the k-th largest value, with multiplicity
KthLargest(l, k) ==
    LET t == CHOOSE u \in Vocab :
                 /\ Cardinality({v \in Vocab : Lt(l[u], l[v])}) < k
                 /\ Cardinality({v \in Vocab : ~Lt(l[v], l[u])}) >= k
    IN  l[t]

\* lines 230-232
TopKFiltered(l, k) ==
    IF k # None
    THEN LET v == KthLargest(l, Min(k[1], VocabSize))
         IN  [u \in Vocab |-> IF Lt(l[u], v) THEN NegInf ELSE l[u]]
    ELSE l

\* F.softmax gives a token a non-zero probability iff its logit is finite, and
\* torch.multinomial draws among the tokens of non-zero probability.
Support(l) == {v \in Vocab : IsFinite(l[v])}

NoLogits == [v \in Vocab |-> NegInf]

\* One loop iteration up to the softmax (lines 213-235)
GenForward ==
    /\ pc = "loop"
    /\ it < max_new_tokens
    /\ logits_t' = Tempered(LastLogits(weights, idx), temperature)
    /\ logits_p' = Penalized(logits_t', idx, repeat_penalty)
    /\ logits' = TopKFiltered(logits_p', top_k)
    /\ trace' = Append(trace, <<"forward">>)
    /\ pc' = "sample"
    /\ UNCHANGED <<weights, prompt, max_new_tokens, temperature, top_k,
                   repeat_penalty, eos, streamer, idx, it>>
    /\ UNCHANGED <<fwdVars, rotVars>>

\* a loop that breaks on eos before it pushes the token
StreamPutUnlessEos(tok) ==
    IF streamer /\ tok # eos THEN <<<<"put", tok>>>> ELSE <<>>

\* What the streamer sees of one sampled token (lines 241-242)
StreamPut(tok) == IF streamer THEN <<<<"put", tok>>>> ELSE <<>>

\* a loop that never looks at eos
EosBreakNever(tok) == FALSE

\* lines 243-244: TRUE iff the loop is left
EosBreak(tok) == tok = eos

\* The rest of the iteration (lines 238-244)
GenSample ==
    /\ pc = "sample"
    /\ \E idx_next \in Support(logits) :
          /\ idx' = Append(idx, idx_next)
          /\ trace' = (trace \o <<<<"cat", idx_next>>>>) \o StreamPut(idx_next)
          /\ pc' = IF EosBreak(idx_next) THEN "exit" ELSE "loop"
    /\ it' = it + 1
    /\ UNCHANGED <<weights, prompt, max_new_tokens, temperature, top_k,
                   repeat_penalty, eos, streamer, logits_t, logits_p, logits>>
    /\ UNCHANGED <<fwdVars, rotVars>>

\* range(max_new_tokens) is exhausted (line 213)
GenExhausted ==
    /\ pc = "loop"
    /\ it >= max_new_tokens
    /\ pc' = "exit"
    /\ UNCHANGED <<weights, prompt, max_new_tokens, temperature, top_k,
                   repeat_penalty, eos, streamer, idx, it, logits_t, logits_p,
                   logits, trace>>
    /\ UNCHANGED <<fwdVars, rotVars>>

\* lines 245-247
StreamEnd == IF streamer THEN <<<<"end">>>> ELSE <<>>

GenReturn ==
    /\ pc = "exit"
    /\ trace' = trace \o StreamEnd
    /\ pc' = "done"
    /\ UNCHANGED <<weights, prompt, max_new_tokens, temperature, top_k,
                   repeat_penalty, eos, streamer, idx, it, logits_t, logits_p,
                   logits>>
    /\ UNCHANGED <<fwdVars, rotVars>>

\* ---- the arguments the calls are made with
LogitVals == {-2, 0, 2}
\* logit tables up to a renaming of the tokens (LastLogits rotates them)
Weights == {w \in [Vocab -> LogitVals] :
               \A u, v \in Vocab : u < v => w[u] <= w[v]}
Prompts == UNION {[1 .. n -> Vocab] : n \in 1 .. MaxPrompt}
Temperatures == {<<1, 1>>, <<2, 1>>}
Penalties == {<<1, 2>>, <<1, 1>>, <<3, 2>>, <<2, 1>>}
TopKs == {None} \cup {Some(k) : k \in 1 .. VocabSize + 1}
EosIds == {-1} \cup Vocab

\* Calls that leave temperature and repeat_penalty at their defaults
\* (lines 207-209), with any max_new_tokens, eos and streamer
LoopArgs ==
    /\ temperature = <<1, 1>>
    /\ repeat_penalty = <<1, 1>>
    /\ top_k \in {None, Some(1)}
    /\ max_new_tokens \in 0 .. MaxNew
    /\ eos \in EosIds
    /\ streamer \in BOOLEAN

\* Calls for one new token with any temperature, top_k and repeat_penalty,
\* eos and streamer at their defaults (lines 210-211)
SamplingArgs ==
    /\ temperature \in Temperatures
    /\ repeat_penalty \in Penalties
    /\ top_k \in TopKs
    /\ max_new_tokens = 1
    /\ eos = -1
    /\ streamer = FALSE

GenIdle ==
    /\ weights = [v \in Vocab |-> 0]
    /\ prompt = <<0>>
    /\ max_new_tokens = 0
    /\ temperature = <<1, 1>>
    /\ top_k = None
    /\ repeat_penalty = <<1, 1>>
    /\ eos = -1
    /\ streamer = FALSE
    /\ idx = <<0>>
    /\ it = 0
    /\ pc = "done"
    /\ logits_t = NoLogits
    /\ logits_p = NoLogits
    /\ logits = NoLogits
    /\ trace = <<>>

GenInit ==
    /\ weights \in Weights
    /\ prompt \in Prompts
    /\ (LoopArgs \/ SamplingArgs)
    /\ idx = prompt
    /\ it = 0
    /\ pc = "loop"
    /\ logits_t = NoLogits
    /\ logits_p = NoLogits
    /\ logits = NoLogits
    /\ trace = <<>>

FwdIdle ==
    /\ config = [n_layer |-> 0, n_head |-> 1, n_embd |-> 1]
    /\ fpc = "new"
    /\ encoder_layers = 0
    /\ decoder_layers = 0
    /\ pass = 0
    /\ li = 0
    /\ x = None
    /\ v1 = None
    /\ skip_connections = <<>>
    /\ calls = <<>>

RotIdle ==
    /\ seq_len_cached = None
    /\ cos_cached = None
    /\ sin_cached = None
    /\ rot_ret = None
    /\ rot_arg = None
    /\ rot_hist = <<>>
    /\ rot_computed = 0

(***************************************************************************)
(* GPT.__init__ and GPT.forward                                            *)
(***************************************************************************)
Configs == [n_layer : 0 .. MaxLayer, n_head : 1 .. MaxHead, n_embd : 1 .. MaxEmbd]

\* CausalSelfAttention.__init__, line 55
HeadsDivide(c) == c.n_embd % c.n_head = 0

\* GPT.__init__: the list comprehension of line 144 builds n_layer blocks, each
\* one a CausalSelfAttention whose constructor asserts; TRUE iff one asserts.
ConstructionFails(c) == \E b \in 0 .. c.n_layer - 1 : ~HeadsDivide(c)

Construct ==
    /\ fpc = "new"
    /\ IF ConstructionFails(config)
       THEN /\ fpc' = "failed"
            /\ UNCHANGED <<encoder_layers, decoder_layers>>
       ELSE /\ fpc' = "built"
            /\ encoder_layers' = config.n_layer \div 2
            /\ decoder_layers' = config.n_layer - encoder_layers'
    /\ UNCHANGED <<config, pass, li, x, v1, skip_connections, calls>>
    /\ UNCHANGED <<genVars, rotVars>>

\* An activation is named by the pass and the block that produced it; block -1
\* is the normalised embedding x0 (lines 162-164).
Act(p, b) == [pass |-> p, by |-> b]

\* c_v(x) of block b (line 71), and the blend of line 74
RawValue(p, b) == [pass |-> p, proj |-> b, with |-> None]
Blended(p, b, src) == [pass |-> p, proj |-> b, with |-> Some(src.proj)]

\* an attention that hands on the value it blended
AttnV1Blended(p, b, v1in) ==
    Blended(p, b, IF v1in = None THEN RawValue(p, b) ELSE v1in[1])

\* CausalSelfAttention.forward, lines 72-74 and 87: the v1 it returns
AttnV1(p, b, v1in) == IF v1in = None THEN RawValue(p, b) ELSE v1in[1]

\* the value the attention of block b attends over (line 74)
AttnV(p, b, v1in) == Blended(p, b, AttnV1(p, b, v1in))

\* Block.forward (lines 115-120) on input xin, with the weighted skip added
\* to it by the caller when there is one
BlockCall(p, b, xin, skip, v1in) ==
    [block |-> b, x_in |-> xin, skip |-> skip, v1_in |-> v1in,
     v |-> AttnV(p, b, v1in), v1_out |-> Some(AttnV1(p, b, v1in))]

\* lines 162-168
FwdStart ==
    /\ fpc \in {"built", "ret"}
    /\ pass < MaxPass
    /\ pass' = pass + 1
    /\ x' = Some(Act(pass', -1))
    /\ v1' = None
    /\ skip_connections' = <<>>
    /\ calls' = <<>>
    /\ li' = 0
    /\ fpc' = "enc"
    /\ UNCHANGED <<config, encoder_layers, decoder_layers>>
    /\ UNCHANGED <<genVars, rotVars>>

\* lines 171-173, one iteration
EncStep ==
    /\ fpc = "enc"
    /\ li < encoder_layers
    /\ LET c == BlockCall(pass, li, x[1], None, v1)
       IN  /\ calls' = Append(calls, c)
           /\ x' = Some(Act(pass, li))
           /\ v1' = c.v1_out
           /\ skip_connections' = Append(skip_connections, x'[1])
    /\ li' = li + 1
    /\ UNCHANGED <<config, fpc, encoder_layers, decoder_layers, pass>>
    /\ UNCHANGED <<genVars, rotVars>>

\* the encoder loop ends
EncDone ==
    /\ fpc = "enc"
    /\ li >= encoder_layers
    /\ fpc' = "dec"
    /\ li' = 0
    /\ UNCHANGED <<config, encoder_layers, decoder_layers, pass, x, v1,
                   skip_connections, calls>>
    /\ UNCHANGED <<genVars, rotVars>>

\* a buffer read first-in-first-out
SkipPopFront(s) == [taken |-> Head(s), left |-> Tail(s)]

\* list.pop(): the element taken and the list left (line 178)
SkipPop(s) == [taken |-> s[Len(s)], left |-> SubSeq(s, 1, Len(s) - 1)]

\* lines 176-184, one iteration; list.pop() of an empty list raises IndexError
DecStep ==
    /\ fpc = "dec"
    /\ li < decoder_layers
    /\ IF skip_connections = <<>>
       THEN /\ fpc' = "raised"
            /\ UNCHANGED <<li, x, v1, skip_connections, calls>>
       ELSE LET popped == SkipPop(skip_connections)
                weighted_skip == [weight |-> li, of |-> popped.taken]
                c == BlockCall(pass, encoder_layers + li, x[1],
                               Some(weighted_skip), v1)
            IN  /\ skip_connections' = popped.left
                /\ calls' = Append(calls, c)
                /\ x' = Some(Act(pass, encoder_layers + li))
                /\ v1' = c.v1_out
                /\ li' = li + 1
                /\ fpc' = fpc
    /\ UNCHANGED <<config, encoder_layers, decoder_layers, pass>>
    /\ UNCHANGED <<genVars, rotVars>>

\* lines 186-200: the decoder loop ends and logits are returned
FwdReturn ==
    /\ fpc = "dec"
    /\ li >= decoder_layers
    /\ fpc' = "ret"
    /\ UNCHANGED <<config, encoder_layers, decoder_layers, pass, li, x, v1,
                   skip_connections, calls>>
    /\ UNCHANGED <<genVars, rotVars>>

FwdInit ==
    /\ config \in Configs
    /\ fpc = "new"
    /\ encoder_layers = 0
    /\ decoder_layers = 0
    /\ pass = 0
    /\ li = 0
    /\ x = None
    /\ v1 = None
    /\ skip_connections = <<>>
    /\ calls = <<>>

(***************************************************************************)
(* Rotary                                                                  *)
(***************************************************************************)
\* inv_freq has one entry per element of arange(0, dim, 2) (line 22)
FreqIdx == 0 .. ((RotDim + 1) \div 2) - 1

\* torch.outer(t, inv_freq) for t = arange(seq_len): entry [t][i] is the angle
\* t * inv_freq[i], kept symbolic as <<t, i>> (lines 31-32)
Freqs(seq_len) == [t \in 0 .. seq_len - 1 |-> [i \in FreqIdx |-> <<t, i>>]]

\* lines 33-34
CosTable(seq_len) == [fn |-> "cos", of |-> Freqs(seq_len)]
SinTable(seq_len) == [fn |-> "sin", of |-> Freqs(seq_len)]

\* a cache that only grows
CacheMissGrowOnly(seq_len) ==
    seq_len_cached = None \/ seq_len > seq_len_cached[1]

\* line 29
CacheMiss(seq_len) == Some(seq_len) # seq_len_cached

\* Rotary.forward on an input of seq_len positions (lines 27-35)
RotaryForward(seq_len) ==
    /\ Len(rot_hist) < MaxCalls
    /\ IF CacheMiss(seq_len)
       THEN /\ seq_len_cached' = Some(seq_len)
            /\ cos_cached' = Some(CosTable(seq_len))
            /\ sin_cached' = Some(SinTable(seq_len))
            /\ rot_computed' = rot_computed + 1
       ELSE UNCHANGED <<seq_len_cached, cos_cached, sin_cached, rot_computed>>
    /\ rot_ret' = <<cos_cached', sin_cached'>>
    /\ rot_arg' = Some(seq_len)
    /\ rot_hist' = Append(rot_hist, seq_len)
    /\ UNCHANGED <<genVars, fwdVars>>

(***************************************************************************)
(* Specifications                                                          *)
(***************************************************************************)
Init == GenInit /\ FwdIdle /\ RotIdle
Next == GenForward \/ GenSample \/ GenExhausted \/ GenReturn
Spec == Init /\ [][Next]_vars

FwdSpecInit == GenIdle /\ FwdInit /\ RotIdle
FwdSpecNext ==
    Construct \/ FwdStart \/ EncStep \/ EncDone \/ DecStep \/ FwdReturn
FwdSpec == FwdSpecInit /\ [][FwdSpecNext]_vars

RotSpecInit == GenIdle /\ FwdIdle /\ RotIdle
RotSpecNext == \E seq_len \in 0 .. MaxSeqLen : RotaryForward(seq_len)
RotSpec == RotSpecInit /\ [][RotSpecNext]_vars

(***************************************************************************)
(* Properties of GPT.generate                                              *)
(***************************************************************************)
NewTokens == SubSeq(idx, Len(prompt) + 1, Len(idx))
IsForward(e) == e[1] = "forward"
IsCat(e) == e[1] = "cat"
IsPut(e) == e[1] = "put"
IsEnd(e) == e[1] = "end"
IsStream(e) == IsPut(e) \/ IsEnd(e)
Tokens(events) == [i \in 1 .. Len(events) |-> events[i][2]]

\* the 1-based step of the first sampled eos; max_new_tokens + 1 stands for
\* "never"
FirstEos ==
    IF \E i \in 1 .. Len(NewTokens) : NewTokens[i] = eos
    THEN CHOOSE i \in 1 .. Len(NewTokens) :
             /\ NewTokens[i] = eos
             /\ \A j \in 1 .. i - 1 : NewTokens[j] # eos
    ELSE max_new_tokens + 1

ReturnedLength ==
    pc = "done" =>
        /\ SubSeq(idx, 1, Len(prompt)) = prompt
        /\ Len(idx) = Len(prompt) + Min(max_new_tokens, FirstEos)
        /\ FirstEos <= max_new_tokens => idx[Len(idx)] = eos
        /\ Len(SelectSeq(trace, IsForward)) = Len(NewTokens)

\* what is left to do: two steps per remaining iteration, and the way out
Variant ==
    2 * (max_new_tokens - it)
        + CASE pc = "loop" -> 3 [] pc = "sample" -> 2 [] pc = "exit" -> 1
            [] OTHER -> 0

\* C1: every call of generate returns (each step strictly decreases a measure
\* that is never negative, and a step can be taken until generate has
\* returned), and what it returns is the prompt followed by
\* min(max_new_tokens, k) sampled tokens, k the step of the first sampled eos:
\* max_new_tokens of them when eos is never sampled, and k of them, the last
\* one eos, when it is; one forward pass was run per token.
C1_GenerateTerminates ==
    /\ []ReturnedLength
    /\ [](Variant >= 0)
    /\ [](pc = "done" \/ ENABLED Next)
    /\ [][Variant' < Variant]_vars

\* generate has returned after an eos sampled before max_new_tokens ran out
C1_Witness ==
    /\ pc = "done"
    /\ FirstEos < max_new_tokens
    /\ Len(idx) = Len(prompt) + FirstEos

\* C5: with a streamer attached, the tokens pushed are the tokens sampled, in
\* order, each pushed once and right after it was appended to the sequence;
\* end() is called once, as the last call, when generate returns, and not
\* before; without a streamer nothing is pushed and end() is not called.
C5_Streaming ==
    /\ Tokens(SelectSeq(trace, IsCat)) = NewTokens
    /\ streamer =>
          /\ Tokens(SelectSeq(trace, IsPut)) = NewTokens
          /\ \A i \in 1 .. Len(trace) :
                IsPut(trace[i]) =>
                    i > 1 /\ trace[i - 1] = <<"cat", trace[i][2]>>
          /\ pc = "done" =>
                /\ Len(SelectSeq(trace, IsEnd)) = 1
                /\ IsEnd(trace[Len(trace)])
          /\ pc # "done" => SelectSeq(trace, IsEnd) = <<>>
    /\ ~streamer => SelectSeq(trace, IsStream) = <<>>

\* generate has returned after an eos that was pushed to the streamer
C5_Witness ==
    /\ pc = "done"
    /\ streamer
    /\ Len(NewTokens) >= 1
    /\ Len(NewTokens) < max_new_tokens
    /\ trace[Len(trace) - 1] = <<"put", eos>>

\* C2: with top_k = 1 and temperature = 1.0 the token drawn does not depend
\* on the random draw: after the filter one token has non-zero probability.
C2_GreedyIsDeterministic ==
    (pc = "sample" /\ top_k = Some(1) /\ Eq(temperature, Rat(1))) =>
        Cardinality(Support(logits)) = 1

Seen == ContextTokens(idx)
Unseen == Vocab \ Seen
Positive(a) == Lt(Rat(0), a)

\* the penalty step on equal logits of a seen token s and an unseen token u,
\* for the call's repeat_penalty and for every larger one
PenaltyLowers(s, u) ==
    /\ Lt(logits_p[s], logits_p[u])
    /\ \A rp \in Penalties :
          Lt(repeat_penalty, rp) =>
              Lt(Penalized(logits_t, idx, rp)[s], logits_p[s])

PenaltyFrame ==
    /\ \A u \in Unseen : logits_p[u] = logits_t[u]
    /\ ~Lt(Rat(1), repeat_penalty) => logits_p = logits_t

\* C7 as stated: whatever the sign of the common logit L of a seen and an
\* unseen token, a repeat_penalty > 1 puts the seen token's logit strictly
\* below the unseen token's, and a larger penalty puts it lower still; unseen
\* logits are not changed, and nothing is changed when repeat_penalty <= 1.
C7_PenaltyMonotoneAnySign ==
    pc = "sample" =>
        /\ PenaltyFrame
        /\ Lt(Rat(1), repeat_penalty) =>
              \A s \in Seen, u \in Unseen :
                  Eq(logits_t[s], logits_t[u]) => PenaltyLowers(s, u)

\* C7 amended: the same for a common logit L > 0.
C7_PenaltyMonotonePositive ==
    pc = "sample" =>
        /\ PenaltyFrame
        /\ Lt(Rat(1), repeat_penalty) =>
              \A s \in Seen, u \in Unseen :
                  (Eq(logits_t[s], logits_t[u]) /\ Positive(logits_t[s])) =>
                      PenaltyLowers(s, u)

\* a seen and an unseen token of equal positive logit were penalised with a
\* repeat_penalty > 1 that is not the largest
C7_Witness ==
    /\ pc = "sample"
    /\ Lt(Rat(1), repeat_penalty)
    /\ \E rp \in Penalties : Lt(repeat_penalty, rp)
    /\ \E s \in Seen, u \in Unseen :
          /\ Eq(logits_t[s], logits_t[u])
          /\ Positive(logits_t[s])
          /\ Lt(logits_p[s], logits_t[s])

\* C9: with top_k set, the filter leaves min(top_k, vocab_size) finite logits,
\* the highest of the penalised logits, unchanged, and makes the others -inf.
C9_TopKKeepsExactlyK ==
    (pc = "sample" /\ top_k # None) =>
        /\ Cardinality(Support(logits)) = Min(top_k[1], VocabSize)
        /\ \A a \in Support(logits) :
              /\ logits[a] = logits_p[a]
              /\ \A b \in Vocab \ Support(logits) :
                    ~Lt(logits_p[a], logits_p[b])
        /\ \A b \in Vocab \ Support(logits) : logits[b] = NegInf

(***************************************************************************)
(* Properties of GPT.__init__ and GPT.forward                              *)
(***************************************************************************)
InForward == fpc \in {"enc", "dec", "ret", "raised"}
DecoderCalls == {j \in 1 .. Len(calls) : calls[j].skip # None}

\* C3: for an even n_layer the halves are equal, decoder step i is given the
\* output of encoder block encoder_layers - 1 - i scaled by skip_weights[i],
\* and when the pass returns every encoder output has been consumed once and
\* the buffer is empty.
C3_SkipPairing ==
    (InForward /\ config.n_layer % 2 = 0) =>
        /\ encoder_layers = decoder_layers
        /\ \A j \in 1 .. Len(calls) :
              LET i == calls[j].block - encoder_layers
              IN  IF i < 0
                  THEN calls[j].skip = None
                  ELSE calls[j].skip =
                          Some([weight |-> i,
                                of |-> Act(pass, encoder_layers - 1 - i)])
        /\ fpc = "ret" =>
              /\ skip_connections = <<>>
              /\ \A e \in 0 .. encoder_layers - 1 :
                    Cardinality({j \in DecoderCalls :
                                    calls[j].skip[1].of = Act(pass, e)}) = 1

\* a pass of a six-layer model has returned: decoder step 0 took block 2's
\* output and decoder step 2 took block 0's
C3_Witness ==
    /\ fpc = "ret"
    /\ config.n_layer = 6
    /\ calls[4].skip = Some([weight |-> 0, of |-> Act(pass, 2)])
    /\ calls[6].skip = Some([weight |-> 2, of |-> Act(pass, 0)])

\* C6: construction fails whenever n_embd % n_head # 0, whatever n_layer is.
C6_ConstructionRejects ==
    (fpc # "new" /\ ~HeadsDivide(config)) => fpc = "failed"

\* C8: in a pass, v1 is absent until the first block is invoked; that block is
\* block 0 and is given no v1; from then on v1 is the raw value projection of
\* block 0 of this pass: every block returns it, every later block is given
\* it and blends its own projection with it.
C8_ValueState ==
    InForward =>
        /\ calls = <<>> => v1 = None
        /\ calls # <<>> =>
              /\ calls[1].block = 0
              /\ calls[1].v1_in = None
              /\ v1 = Some(RawValue(pass, 0))
              /\ \A j \in 1 .. Len(calls) :
                    /\ calls[j].v1_out = Some(RawValue(pass, 0))
                    /\ calls[j].v = Blended(pass, calls[j].block,
                                            RawValue(pass, 0))
                    /\ j > 1 => calls[j].v1_in = Some(RawValue(pass, 0))

\* the second pass of a four-layer model has returned
C8_Witness ==
    /\ fpc = "ret"
    /\ pass = 2
    /\ config.n_layer = 4
    /\ Len(calls) = 4
    /\ calls[4].v1_in = Some(RawValue(2, 0))

\* C10: for every n_layer a pass pops no empty buffer, and returns having
\* invoked the blocks 0 .. n_layer - 1 once each, in that order.
C10_ForwardCompletes ==
    /\ fpc # "raised"
    /\ fpc = "ret" =>
          /\ Len(calls) = config.n_layer
          /\ \A j \in 1 .. Len(calls) : calls[j].block = j - 1

(***************************************************************************)
(* Properties of Rotary                                                    *)
(***************************************************************************)
\* the calls whose length differs from the cached one
Misses ==
    {j \in 1 .. Len(rot_hist) : j = 1 \/ rot_hist[j] # rot_hist[j - 1]}

\* C4: the tables are computed in exactly the calls whose length differs from
\* the cached one, the cached tables are those of seq_len_cached, and every
\* call returns the tables a fresh computation for its length would give.
C4_RotaryCache ==
    /\ rot_computed = Cardinality(Misses)
    /\ rot_hist = <<>> => seq_len_cached = None
    /\ rot_hist # <<>> =>
          /\ rot_arg = Some(rot_hist[Len(rot_hist)])
          /\ seq_len_cached = rot_arg
          /\ cos_cached = Some(CosTable(seq_len_cached[1]))
          /\ sin_cached = Some(SinTable(seq_len_cached[1]))
          /\ rot_ret = <<Some(CosTable(rot_arg[1])), Some(SinTable(rot_arg[1]))>>

\* three calls, a short, a longer and the short length again, then a fourth
\* with the same length: three computations
C4_Witness ==
    /\ Len(rot_hist) = 4
    /\ rot_hist[1] < rot_hist[2]
    /\ rot_hist[3] = rot_hist[1]
    /\ rot_hist[4] = rot_hist[3]
    /\ rot_computed = 3
    /\ rot_ret[1] = Some(CosTable(rot_hist[1]))

====
